---------------------------- MODULE Spec2Model ----------------------------
(***************************************************************************)
(* Theater-booking statement: statement() (src/src/statement.cpp),         *)
(* make_statement_data() (src/src/make_statement_data.cpp) and             *)
(* html_statement() (declared in src/src/statement.h, exercised by         *)
(* src/src/statement_test.cpp; its body is not among the sources and is    *)
(* modelled from the specification).                                       *)
(*                                                                         *)
(* A behaviour is a set of invocations ("calls") over one invoice and one  *)
(* catalog.  Every call owns its locals (the vector of enriched            *)
(* performances, the totals, the text it returns or the exception it       *)
(* throws); the invoice, the catalog and the function-local static         *)
(* calculators of get_performance_calculator are what the calls share.     *)
(* One step of a call is one iteration of the transform/copy loop, or the  *)
(* aggregation and rendering that follow it.                               *)
(***************************************************************************)
EXTENDS Integers, Sequences, FiniteSets, TLC

VARIABLES
    invoice,        \* Invoice {customer, performances}: caller-owned input
    plays,          \* std::map<std::string, Play>: caller-owned catalog
    calculators,    \* Play::Type values whose static calculator is constructed
    call            \* call id -> the locals of that invocation

vars == <<invoice, plays, calculators, call>>

(***************************************************************************)
(* Bounds of the model.                                                    *)
(***************************************************************************)
MaxPerformances == 2
MaxAudience == 60
MaxCallers == 2

(***************************************************************************)
(* Play::Type.  An enum class without an explicit underlying type has      *)
(* underlying type int, so every int is a value a Play may carry.          *)
(***************************************************************************)
Tragedy == 0
Comedy == 1

\* The raw genre values drawn as inputs: the two enumerators and two others.
Types == {-1, Tragedy, Comedy, 2}

Max(a, b) == IF a >= b THEN a ELSE b

(***************************************************************************)
(* usd: std::put_money under en_US.UTF-8 with std::showbase.  The amount   *)
(* is in cents; the dollars are grouped by thousands, the cents take two   *)
(* digits.  Every amount the program formats is at least 30000, so only    *)
(* the non-negative, at-least-one-dollar layout is modelled.               *)
(***************************************************************************)
Pad(n, width) ==
    IF width = 3 /\ n < 10 THEN "00" \o ToString(n)
    ELSE IF width = 3 /\ n < 100 THEN "0" \o ToString(n)
    ELSE IF width = 2 /\ n < 10 THEN "0" \o ToString(n)
    ELSE ToString(n)

RECURSIVE Grouped(_)
Grouped(n) ==
    IF n < 1000 THEN ToString(n)
    ELSE Grouped(n \div 1000) \o "," \o Pad(n % 1000, 3)

usd(amount) == "$" \o Grouped(amount \div 100) \o "." \o Pad(amount % 100, 2)

(***************************************************************************)
(* Exceptions.  std::map::at throws std::out_of_range; the genre switch    *)
(* throws std::runtime_error with the raw value in the message.            *)
(***************************************************************************)
NoError == [kind |-> "none", what |-> ""]
OutOfRange == [kind |-> "out_of_range", what |-> "map::at"]
UnknownType(type) ==
    [kind |-> "runtime_error", what |-> ToString(type) \o ": unknown Play::Type"]

Returned(value) == [ok |-> TRUE, value |-> value, error |-> NoError]
Thrown(error) == [ok |-> FALSE, value |-> 0, error |-> error]

(***************************************************************************)
(* statement.cpp: the lambdas of statement().                              *)
(***************************************************************************)
statement_play_for_unchecked(catalog, perf) ==
    IF perf.play_id \in DOMAIN catalog
    THEN Returned(catalog[perf.play_id])
    ELSE Returned([name |-> "", type |-> Tragedy])

statement_play_for(catalog, perf) ==
    IF perf.play_id \in DOMAIN catalog
    THEN Returned(catalog[perf.play_id])
    ELSE Thrown(OutOfRange)

statement_amount_for_surge_at_threshold(perf) ==
    IF perf.play.type = Tragedy
    THEN Returned(40000 + (IF perf.base.audience >= 30
                           THEN 1000 * (perf.base.audience - 30) ELSE 0))
    ELSE IF perf.play.type = Comedy
    THEN Returned(30000
                  + (IF perf.base.audience >= 20
                     THEN 10000 + 500 * (perf.base.audience - 20) ELSE 0)
                  + 300 * perf.base.audience)
    ELSE Thrown(UnknownType(perf.play.type))

statement_amount_for(perf) ==
    IF perf.play.type = Tragedy
    THEN LET amount0 == 40000
             amount1 == IF perf.base.audience > 30
                        THEN amount0 + 1000 * (perf.base.audience - 30)
                        ELSE amount0
         IN  Returned(amount1)
    ELSE IF perf.play.type = Comedy
    THEN LET amount0 == 30000
             amount1 == IF perf.base.audience > 20
                        THEN amount0 + (10000 + 500 * (perf.base.audience - 20))
                        ELSE amount0
             amount2 == amount1 + 300 * perf.base.audience
         IN  Returned(amount2)
    ELSE Thrown(UnknownType(perf.play.type))

statement_volume_credits_for_rounding_up(perf) ==
    Max(perf.base.audience - 30, 0)
    + (IF Comedy = perf.play.type THEN (perf.base.audience + 4) \div 5 ELSE 0)

statement_volume_credits_for(perf) ==
    LET volume_credits0 == 0
        volume_credits1 == volume_credits0 + Max(perf.base.audience - 30, 0)
        volume_credits2 == IF Comedy = perf.play.type
                           THEN volume_credits1 + perf.base.audience \div 5
                           ELSE volume_credits1
    IN  volume_credits2


statement_enrich_performance(catalog, base) ==
    LET play == statement_play_for(catalog, base)
    IN  IF ~play.ok THEN Thrown(play.error)
        ELSE LET enriched == [base |-> base, play |-> play.value,
                              amount |-> 0, volume_credits |-> 0]
                 amount == statement_amount_for(enriched)
             IN  IF ~amount.ok THEN Thrown(amount.error)
                 ELSE LET priced == [enriched EXCEPT !.amount = amount.value]
                      IN  Returned([priced EXCEPT !.volume_credits =
                                        statement_volume_credits_for(priced)])

(***************************************************************************)
(* statement.cpp: render_plain_text.  The text is kept as its sequence of  *)
(* lines (each is written with a trailing newline).                        *)
(***************************************************************************)
RECURSIVE total_loop(_, _, _, _)
total_loop(performances, field, i, total) ==
    IF i > Len(performances) THEN total
    ELSE total_loop(performances, field, i + 1, total + performances[i][field])

render_total_amount_skipping_first(data) ==
    total_loop(data.performances, "amount", 2, 0)

render_total_amount(data) == total_loop(data.performances, "amount", 1, 0)

render_total_volume_credits(data) ==
    total_loop(data.performances, "volume_credits", 1, 0)

render_plain_text(data) ==
    <<"Statement for " \o data.customer>>
    \o [i \in 1..Len(data.performances) |->
            LET perf == data.performances[i]
            IN  "  " \o perf.play.name \o ": " \o usd(perf.amount)
                \o " (" \o ToString(perf.base.audience) \o " seats)"]
    \o <<"Amount owed is " \o usd(render_total_amount(data)),
         "You earned " \o ToString(render_total_volume_credits(data)) \o " credits">>

(***************************************************************************)
(* make_statement_data.cpp: the calculators, the dispatch on Play::Type    *)
(* and the lambdas of make_statement_data().  A calculator is named by     *)
(* the enumerator it serves; the virtual call selects the override.        *)
(***************************************************************************)
PerformanceCalculator_volume_credits_for(data) ==
    Max(data.performance.audience - 30, 0)

TragedyPerformanceCalculator_amount_for(data) ==
    LET amount0 == 40000
        amount1 == IF data.performance.audience > 30
                   THEN amount0 + 1000 * (data.performance.audience - 30)
                   ELSE amount0
    IN  amount1

ComedyPerformanceCalculator_amount_for_surge_at_threshold(data) ==
    30000
    + (IF data.performance.audience >= 20
       THEN 10000 + 500 * (data.performance.audience - 20) ELSE 0)
    + 300 * data.performance.audience

ComedyPerformanceCalculator_amount_for(data) ==
    LET amount0 == 30000
        amount1 == IF data.performance.audience > 20
                   THEN amount0 + (10000 + 500 * (data.performance.audience - 20))
                   ELSE amount0
        amount2 == amount1 + 300 * data.performance.audience
    IN  amount2

ComedyPerformanceCalculator_volume_credits_for_without_base(data) ==
    data.performance.audience \div 5

ComedyPerformanceCalculator_volume_credits_for(data) ==
    LET volume_credits0 == PerformanceCalculator_volume_credits_for(data)
        volume_credits1 == volume_credits0 + data.performance.audience \div 5
    IN  volume_credits1

get_performance_calculator_defaulting(type) ==
    IF type = Comedy THEN Returned(Comedy) ELSE Returned(Tragedy)

get_performance_calculator(type) ==
    IF type = Tragedy THEN Returned(Tragedy)
    ELSE IF type = Comedy THEN Returned(Comedy)
    ELSE Thrown(UnknownType(type))

amount_for(calculator, data) ==
    IF calculator = Tragedy THEN TragedyPerformanceCalculator_amount_for(data)
    ELSE ComedyPerformanceCalculator_amount_for(data)

volume_credits_for(calculator, data) ==
    IF calculator = Comedy THEN ComedyPerformanceCalculator_volume_credits_for(data)
    ELSE PerformanceCalculator_volume_credits_for(data)

make_statement_data_play_for_unchecked(catalog, perf) ==
    IF perf.play_id \in DOMAIN catalog
    THEN Returned(catalog[perf.play_id])
    ELSE Returned([name |-> "", type |-> Tragedy])

make_statement_data_play_for(catalog, perf) ==
    IF perf.play_id \in DOMAIN catalog
    THEN Returned(catalog[perf.play_id])
    ELSE Thrown(OutOfRange)

make_statement_data_enrich_performance(catalog, perf) ==
    LET play == make_statement_data_play_for(catalog, perf)
    IN  IF ~play.ok THEN Thrown(play.error)
        ELSE LET data == [performance |-> perf, play |-> play.value]
                 calculator == get_performance_calculator(data.play.type)
             IN  IF ~calculator.ok THEN Thrown(calculator.error)
                 ELSE Returned([base |-> perf,
                                play |-> data.play,
                                amount |-> amount_for(calculator.value, data),
                                volume_credits |->
                                    volume_credits_for(calculator.value, data)])

RECURSIVE accumulate(_, _, _, _)
accumulate(performances, i, init, field) ==
    IF i > Len(performances) THEN init
    ELSE accumulate(performances, i + 1, init + performances[i][field], field)

front_inserter(container, value) == <<value>> \o container

back_inserter(container, value) == Append(container, value)

(***************************************************************************)
(* html_statement.  Only its declaration (statement.h) and its expected    *)
(* output (statement_test.cpp) are among the sources; the pricing is the   *)
(* table of the specification's section 4.2, the failures are those of     *)
(* its sections 4.1 and 7 (the first offending performance aborts the      *)
(* statement), the layout is the one the test expects.                     *)
(***************************************************************************)
TableAmount(type, a) ==
    IF type = Tragedy
    THEN 40000 + (IF a > 30 THEN 1000 * (a - 30) ELSE 0)
    ELSE 30000 + (IF a > 20 THEN 10000 + 500 * (a - 20) ELSE 0) + 300 * a

TableVolumeCredits(type, a) ==
    IF type = Tragedy THEN Max(a - 30, 0) ELSE Max(a - 30, 0) + a \div 5

Missing(catalog, perf) == perf.play_id \notin DOMAIN catalog

UnknownGenre(catalog, perf) ==
    /\ ~Missing(catalog, perf)
    /\ catalog[perf.play_id].type \notin {Tragedy, Comedy}

Offending(catalog, perf) == Missing(catalog, perf) \/ UnknownGenre(catalog, perf)

\* The position of the first offending performance, 0 when there is none.
FirstOffending(inv, catalog) ==
    LET bad == {i \in 1..Len(inv.performances) :
                    Offending(catalog, inv.performances[i])}
    IN  IF bad = {} THEN 0 ELSE CHOOSE i \in bad : \A j \in bad : i <= j

RECURSIVE SumOf(_, _)
SumOf(seq, field) ==
    IF seq = <<>> THEN 0 ELSE seq[Len(seq)][field] + SumOf(SubSeq(seq, 1, Len(seq) - 1), field)

render_html(data) ==
    <<"<h1>Statement for " \o data.customer \o "</h1>",
      "<table>",
      "  <tr><th>play</th><th>seats</th><th>cost</th></tr>">>
    \o [i \in 1..Len(data.performances) |->
            LET perf == data.performances[i]
            IN  "  <tr><td>" \o perf.play.name \o "</td><td>"
                \o ToString(perf.base.audience) \o "</td><td>"
                \o usd(perf.amount) \o "</td></tr>"]
    \o <<"</table>",
         "<p>Amount owed is <em>" \o usd(SumOf(data.performances, "amount"))
             \o "</em></p>",
         "<p>You earned <em>"
             \o ToString(SumOf(data.performances, "volume_credits"))
             \o "</em> credits</p>">>

html_statement(inv, catalog) ==
    LET k == FirstOffending(inv, catalog)
    IN  IF k # 0
        THEN IF Missing(catalog, inv.performances[k])
             THEN Thrown(OutOfRange)
             ELSE Thrown(UnknownType(catalog[inv.performances[k].play_id].type))
        ELSE Returned(render_html(
                 [customer |-> inv.customer,
                  performances |->
                      [i \in 1..Len(inv.performances) |->
                          LET perf == inv.performances[i]
                              play == catalog[perf.play_id]
                          IN  [base |-> perf, play |-> play,
                               amount |-> TableAmount(play.type, perf.audience),
                               volume_credits |->
                                   TableVolumeCredits(play.type, perf.audience)]]]))

(***************************************************************************)
(* The locals of one invocation.  enriched is the vector                   *)
(* enriched_performances (the StatementData's performances once it is      *)
(* built); it is destroyed when an exception unwinds the call.  priced     *)
(* counts the performances whose amount this call has computed; it is      *)
(* history, kept across the unwinding.                                     *)
(***************************************************************************)
Ops == {"statement", "make_statement_data", "html_statement"}

NewCall(op) ==
    [op |-> op, pc |-> "enrich", enriched |-> <<>>, priced |-> 0,
     text |-> <<>>, total_amount |-> 0, total_volume_credits |-> 0,
     error |-> NoError]

Unwind(locals, error) ==
    [locals EXCEPT !.pc = "thrown", !.enriched = <<>>, !.error = error]

Finished(c) == call[c].pc \in {"returned", "thrown"}

\* statement.cpp:116-117, one iteration of the copy over the transform view.
StatementEnrichSharedVector(c) ==
    /\ call[c].op = "statement"
    /\ call[c].pc = "enrich"
    /\ Len(call[c].enriched) < Len(invoice.performances)
    /\ LET base == invoice.performances[Len(call[c].enriched) + 1]
           r == statement_enrich_performance(plays, base)
       IN  call' = [d \in DOMAIN call |->
                       IF d = c /\ ~r.ok THEN Unwind(call[d], r.error)
                       ELSE IF r.ok /\ call[d].op = "statement"
                                    /\ call[d].pc = "enrich"
                            THEN [call[d] EXCEPT
                                      !.enriched = back_inserter(@, r.value),
                                      !.priced = @ + 1]
                            ELSE call[d]]
    /\ UNCHANGED <<invoice, plays, calculators>>

StatementEnrich(c) ==
    /\ call[c].op = "statement"
    /\ call[c].pc = "enrich"
    /\ Len(call[c].enriched) < Len(invoice.performances)
    /\ LET base == invoice.performances[Len(call[c].enriched) + 1]
           r == statement_enrich_performance(plays, base)
       IN  call' = [call EXCEPT ![c] =
                       IF r.ok
                       THEN [@ EXCEPT !.enriched = back_inserter(@, r.value),
                                      !.priced = @ + 1]
                       ELSE Unwind(@, r.error)]
    /\ UNCHANGED <<invoice, plays, calculators>>

\* statement.cpp:119-124, the StatementData and its rendering.
StatementRender(c) ==
    /\ call[c].op = "statement"
    /\ call[c].pc = "enrich"
    /\ Len(call[c].enriched) = Len(invoice.performances)
    /\ LET statement_data == [customer |-> invoice.customer,
                              performances |-> call[c].enriched]
       IN  call' = [call EXCEPT ![c] =
                       [@ EXCEPT !.pc = "returned",
                                 !.text = render_plain_text(statement_data)]]
    /\ UNCHANGED <<invoice, plays, calculators>>

\* make_statement_data.cpp:97-100, one iteration of the copy; the static
\* calculator of the genre is constructed on the first use of its case.
MakeStatementDataEnrich(c) ==
    /\ call[c].op = "make_statement_data"
    /\ call[c].pc = "enrich"
    /\ Len(call[c].enriched) < Len(invoice.performances)
    /\ LET perf == invoice.performances[Len(call[c].enriched) + 1]
           r == make_statement_data_enrich_performance(plays, perf)
       IN  /\ call' = [call EXCEPT ![c] =
                          IF r.ok
                          THEN [@ EXCEPT !.enriched = back_inserter(@, r.value),
                                         !.priced = @ + 1]
                          ELSE Unwind(@, r.error)]
           /\ calculators' = IF r.ok THEN calculators \cup {r.value.play.type}
                             ELSE calculators
    /\ UNCHANGED <<invoice, plays>>

\* make_statement_data.cpp:101-115, the totals and the StatementData.
MakeStatementDataTotals(c) ==
    /\ call[c].op = "make_statement_data"
    /\ call[c].pc = "enrich"
    /\ Len(call[c].enriched) = Len(invoice.performances)
    /\ call' = [call EXCEPT ![c] =
                   [@ EXCEPT !.pc = "returned",
                             !.total_amount =
                                 accumulate(call[c].enriched, 1, 0, "amount"),
                             !.total_volume_credits =
                                 accumulate(call[c].enriched, 1, 0, "volume_credits")]]
    /\ UNCHANGED <<invoice, plays, calculators>>

HtmlStatement(c) ==
    /\ call[c].op = "html_statement"
    /\ call[c].pc = "enrich"
    /\ LET r == html_statement(invoice, plays)
       IN  call' = [call EXCEPT ![c] =
                       IF r.ok THEN [@ EXCEPT !.pc = "returned", !.text = r.value]
                       ELSE Unwind(@, r.error)]
    /\ UNCHANGED <<invoice, plays, calculators>>

Next ==
    \/ \E c \in DOMAIN call : StatementEnrich(c)
    \/ \E c \in DOMAIN call : StatementRender(c)
    \/ \E c \in DOMAIN call : MakeStatementDataEnrich(c)
    \/ \E c \in DOMAIN call : MakeStatementDataTotals(c)
    \/ \E c \in DOMAIN call : HtmlStatement(c)

(***************************************************************************)
(* Inputs.  Catalog holds a play of each genre and two plays whose genre   *)
(* is no enumerator; "nope" is an id it does not hold.  The two fixtures   *)
(* are those of statement_test.cpp.                                        *)
(***************************************************************************)
Catalog ==
    [id \in {"hamlet", "as-like", "xyz", "zzz"} |->
        CASE id = "hamlet" -> [name |-> "Hamlet", type |-> Tragedy]
          [] id = "as-like" -> [name |-> "As You Like It", type |-> Comedy]
          [] id = "xyz" -> [name |-> "XYZ", type |-> -1]
          [] id = "zzz" -> [name |-> "ZZZ", type |-> 2]]

PlayIds == DOMAIN Catalog \cup {"nope"}

Audiences == {20, 22, 31}

SeqsUpTo(S, n) == UNION {[1..k -> S] : k \in 0..n}

BigCoPlays ==
    [id \in {"hamlet", "as-like", "othello"} |->
        CASE id = "hamlet" -> [name |-> "Hamlet", type |-> Tragedy]
          [] id = "as-like" -> [name |-> "As You Like It", type |-> Comedy]
          [] id = "othello" -> [name |-> "Othello", type |-> Tragedy]]

BigCoInvoice ==
    [customer |-> "BigCo",
     performances |-> <<[play_id |-> "hamlet", audience |-> 55],
                        [play_id |-> "as-like", audience |-> 35],
                        [play_id |-> "othello", audience |-> 40]>>]

UnknownTypePlays == [id \in {"xyz"} |-> [name |-> "XYZ", type |-> -1]]

UnknownTypeInvoice ==
    [customer |-> "UT KK",
     performances |-> <<[play_id |-> "xyz", audience |-> 10]>>]

OneOfEach == <<"statement", "make_statement_data", "html_statement">>

\* One call of each operation over an invoice of up to MaxPerformances lines.
Init ==
    /\ \/ /\ plays = Catalog
          /\ invoice \in [customer : {"BigCo"},
                          performances :
                              SeqsUpTo([play_id : PlayIds, audience : Audiences],
                                       MaxPerformances)]
       \/ plays = BigCoPlays /\ invoice = BigCoInvoice
       \/ plays = UnknownTypePlays /\ invoice = UnknownTypeInvoice
    /\ calculators = {}
    /\ call = [c \in 1..3 |-> NewCall(OneOfEach[c])]

Spec == Init /\ [][Next]_vars

\* One call of each operation over one performance of any audience.
InitPricing ==
    /\ plays = Catalog
    /\ invoice \in [customer : {"BigCo"},
                    performances :
                        [1..1 -> [play_id : PlayIds, audience : 0..MaxAudience]]]
    /\ calculators = {}
    /\ call = [c \in 1..3 |-> NewCall(OneOfEach[c])]

SpecPricing == InitPricing /\ [][Next]_vars

\* MaxCallers concurrent calls, of any operations, over one invoice.
InitConcurrent ==
    /\ plays = Catalog
    /\ invoice \in [customer : {"BigCo"},
                    performances :
                        SeqsUpTo([play_id : PlayIds, audience : {22}],
                                 MaxPerformances)]
    /\ calculators \in SUBSET {Tragedy, Comedy}
    /\ call \in [1..MaxCallers -> {NewCall(op) : op \in Ops}]

SpecConcurrent == InitConcurrent /\ [][Next]_vars

(***************************************************************************)
(* Properties.                                                             *)
(***************************************************************************)
CodeCalls == {c \in DOMAIN call : call[c].op \in {"statement", "make_statement_data"}}

Performances == invoice.performances

NoStatement(c) ==
    /\ call[c].text = <<>>
    /\ call[c].enriched = <<>>
    /\ call[c].total_amount = 0
    /\ call[c].total_volume_credits = 0

\* C1: in both pipelines the amount of every priced performance is the
\* table's: Tragedy 40000 plus 1000 per seat above 30, Comedy 30000 plus
\* 300 per seat plus, above 20 seats only, 10000 and 500 per seat above 20.
C1_AmountIsTableFormula ==
    \A c \in CodeCalls :
        \A i \in 1..Len(call[c].enriched) :
            LET a == Performances[i].audience
                type == plays[Performances[i].play_id].type
                amount == call[c].enriched[i].amount
            IN  /\ type \in {Tragedy, Comedy}
                /\ type = Tragedy /\ a <= 30 => amount = 40000
                /\ type = Tragedy /\ a > 30 => amount = 40000 + 1000 * (a - 30)
                /\ type = Comedy /\ a <= 20 => amount = 30000 + 300 * a
                /\ type = Comedy /\ a > 20 =>
                       amount = 30000 + 10000 + 500 * (a - 20) + 300 * a

\* Both pipelines have priced a Comedy of exactly 20 seats: no surge term.
C1_Witness ==
    /\ \A c \in CodeCalls : call[c].pc = "returned"
    /\ CodeCalls # {}
    /\ Performances = <<[play_id |-> "as-like", audience |-> 20]>>
    /\ \A c \in CodeCalls : call[c].enriched[1].amount = 36000

\* C2: in both pipelines the volume credits of a Tragedy are max(a - 30, 0)
\* and those of a Comedy are max(a - 30, 0) + q, where q is the floor of
\* a / 5 (5q <= a < 5q + 5).
C2_VolumeCreditsFormula ==
    \A c \in CodeCalls :
        \A i \in 1..Len(call[c].enriched) :
            LET a == Performances[i].audience
                type == plays[Performances[i].play_id].type
                credits == call[c].enriched[i].volume_credits
                over == IF a > 30 THEN a - 30 ELSE 0
            IN  /\ type = Tragedy => credits = over
                /\ type = Comedy =>
                       \E q \in 0..a : /\ 5 * q <= a
                                       /\ a < 5 * q + 5
                                       /\ credits = over + q

\* Both pipelines have priced a Comedy of 22 seats: 4 credits.
C2_Witness ==
    /\ \A c \in CodeCalls : call[c].pc = "returned"
    /\ CodeCalls # {}
    /\ Performances = <<[play_id |-> "as-like", audience |-> 22]>>
    /\ \A c \in CodeCalls : call[c].enriched[1].volume_credits = 4

\* C3: a returned statement reports, and a returned StatementData holds, as
\* total amount the sum of the line amounts and as total volume credits the
\* sum of the line credits, one line per performance of the invoice.
C3_TotalsAreSums ==
    \A c \in CodeCalls :
        call[c].pc = "returned" =>
            LET lines == call[c].enriched
                n == Len(Performances)
            IN  /\ Len(lines) = n
                /\ \A i \in 1..n : lines[i].base = Performances[i]
                /\ call[c].op = "make_statement_data" =>
                       /\ call[c].total_amount = SumOf(lines, "amount")
                       /\ call[c].total_volume_credits = SumOf(lines, "volume_credits")
                /\ call[c].op = "statement" =>
                       /\ call[c].text[n + 2] =
                              "Amount owed is " \o usd(SumOf(lines, "amount"))
                       /\ call[c].text[n + 3] =
                              "You earned " \o ToString(SumOf(lines, "volume_credits"))
                                  \o " credits"

\* The BigCo fixture, returned by both pipelines: $1,730.00 and 47 credits.
C3_Witness ==
    /\ invoice = BigCoInvoice
    /\ \E c \in CodeCalls :
           /\ call[c].op = "statement"
           /\ call[c].pc = "returned"
           /\ call[c].text[5] = "Amount owed is $1,730.00"
           /\ call[c].text[6] = "You earned 47 credits"
    /\ \E c \in CodeCalls :
           /\ call[c].op = "make_statement_data"
           /\ call[c].pc = "returned"
           /\ call[c].total_amount = 173000
           /\ call[c].total_volume_credits = 47

\* C4: a returned statement has one line per performance of the invoice and
\* its i-th line is made from the i-th performance and that performance's
\* play; so has a returned StatementData.
C4_OneLinePerPerformanceInOrder ==
    \A c \in CodeCalls :
        call[c].pc = "returned" =>
            LET n == Len(Performances)
            IN  /\ Len(call[c].enriched) = n
                /\ \A i \in 1..n :
                       /\ call[c].enriched[i].base = Performances[i]
                       /\ call[c].enriched[i].play = plays[Performances[i].play_id]
                /\ call[c].op = "statement" =>
                       /\ Len(call[c].text) = n + 3
                       /\ \A i \in 1..n :
                              call[c].text[i + 1] =
                                  "  " \o plays[Performances[i].play_id].name \o ": "
                                  \o usd(call[c].enriched[i].amount) \o " ("
                                  \o ToString(Performances[i].audience) \o " seats)"

\* A statement of two different performances has been returned.
C4_Witness ==
    \E c \in CodeCalls :
        /\ call[c].op = "statement"
        /\ call[c].pc = "returned"
        /\ Len(Performances) = 2
        /\ Performances[1].play_id = "as-like"
        /\ Performances[2].play_id = "hamlet"
        /\ call[c].text[2] = "  As You Like It: $476.00 (22 seats)"
        /\ call[c].text[3] = "  Hamlet: $410.00 (31 seats)"

\* The position of the first performance whose play id the catalog lacks,
\* 0 when there is none.
FirstMissing ==
    LET bad == {i \in 1..Len(Performances) : Missing(plays, Performances[i])}
    IN  IF bad = {} THEN 0 ELSE CHOOSE i \in bad : \A j \in bad : i <= j

\* C5, as claimed: a play id missing at any position makes the call fail
\* with the key-not-found error and yield no statement.
C5_Original ==
    \A c \in CodeCalls :
        Finished(c) /\ FirstMissing # 0 =>
            /\ call[c].pc = "thrown"
            /\ call[c].error.kind = "out_of_range"
            /\ NoStatement(c)

\* C5, amended: a play id missing at any position makes the call fail and
\* yield no text and no StatementData; the error is the key-not-found error
\* unless a performance before the first such one has a play of unknown
\* genre, and then it is the unknown-genre error of the first of those.
C5_MissingPlayFails ==
    \A c \in CodeCalls :
        Finished(c) /\ FirstMissing # 0 =>
            /\ call[c].pc = "thrown"
            /\ NoStatement(c)
            /\ LET k == FirstOffending(invoice, plays)
               IN  IF k = FirstMissing
                   THEN call[c].error.kind = "out_of_range"
                   ELSE /\ k < FirstMissing
                        /\ UnknownGenre(plays, Performances[k])
                        /\ call[c].error = UnknownType(plays[Performances[k].play_id].type)

\* Both pipelines have failed on a play id missing at the second position.
C5_Witness ==
    /\ Len(Performances) = 2
    /\ FirstMissing = 2
    /\ FirstOffending(invoice, plays) = 2
    /\ CodeCalls # {}
    /\ \A c \in CodeCalls : call[c].pc = "thrown" /\ call[c].error.kind = "out_of_range"

\* C6, as claimed: a play of unknown genre at any position makes the call
\* fail with the message "<raw genre>: unknown Play::Type".
C6_Original ==
    \A c \in CodeCalls :
        \A i \in 1..Len(Performances) :
            Finished(c) /\ UnknownGenre(plays, Performances[i]) =>
                /\ call[c].pc = "thrown"
                /\ call[c].error.what =
                       ToString(plays[Performances[i].play_id].type)
                           \o ": unknown Play::Type"
                /\ NoStatement(c)

\* C6, amended: a play of unknown genre at any position makes the call fail
\* and yield no statement (the line is not skipped); the error is that of
\* the first offending performance: the message "<raw genre>: unknown
\* Play::Type" with that performance's genre when its genre is unknown, the
\* key-not-found error when its play id is missing.
C6_UnknownGenreFails ==
    \A c \in CodeCalls :
        (Finished(c) /\ \E i \in 1..Len(Performances) :
                            UnknownGenre(plays, Performances[i])) =>
            /\ call[c].pc = "thrown"
            /\ NoStatement(c)
            /\ LET first == Performances[FirstOffending(invoice, plays)]
               IN  IF UnknownGenre(plays, first)
                   THEN /\ call[c].error.kind = "runtime_error"
                        /\ call[c].error.what =
                               ToString(plays[first.play_id].type)
                                   \o ": unknown Play::Type"
                   ELSE /\ Missing(plays, first)
                        /\ call[c].error.kind = "out_of_range"

\* Both pipelines have failed on the genre 2 of the second performance,
\* after pricing the first.
C6_Witness ==
    /\ Len(Performances) = 2
    /\ Performances[1].play_id = "hamlet"
    /\ Performances[2].play_id = "zzz"
    /\ CodeCalls # {}
    /\ \A c \in CodeCalls :
           /\ call[c].pc = "thrown"
           /\ call[c].error.what = "2: unknown Play::Type"

\* C7, as claimed: a call that fails on a missing play id has computed no
\* amount at all.
C7_Original ==
    \A c \in CodeCalls :
        call[c].pc = "thrown" /\ call[c].error.kind = "out_of_range" =>
            call[c].priced = 0

\* C7, amended: when the first offending performance is one whose play id
\* is missing, the call fails before it computes the amount of that
\* performance or of any after it; the amounts of the performances before
\* it have been computed by then (and are dropped with the statement).
C7_FailsBeforePricingTheRest ==
    \A c \in CodeCalls :
        LET k == FirstOffending(invoice, plays)
        IN  (k # 0 /\ k = FirstMissing) =>
                /\ call[c].priced <= k - 1
                /\ Finished(c) =>
                       /\ call[c].pc = "thrown"
                       /\ call[c].error.kind = "out_of_range"
                       /\ call[c].priced = k - 1

\* Both pipelines have failed on the missing second play id after computing
\* the amount of the first performance.
C7_Witness ==
    /\ CodeCalls # {}
    /\ \A c \in CodeCalls :
           /\ call[c].pc = "thrown"
           /\ call[c].error.kind = "out_of_range"
           /\ call[c].priced = 1

(***************************************************************************)
(* The locals a call of op ends with when no other call runs: the loop     *)
(* over the performances in order, then the totals or the rendering.       *)
(***************************************************************************)
RECURSIVE AloneEnrich(_, _)
AloneEnrich(op, locals) ==
    IF Len(locals.enriched) = Len(Performances) THEN locals
    ELSE LET perf == Performances[Len(locals.enriched) + 1]
             r == IF op = "statement"
                  THEN statement_enrich_performance(plays, perf)
                  ELSE make_statement_data_enrich_performance(plays, perf)
         IN  IF r.ok
             THEN AloneEnrich(op, [locals EXCEPT !.enriched = Append(@, r.value),
                                                 !.priced = @ + 1])
             ELSE Unwind(locals, r.error)

Alone(op) ==
    IF op = "html_statement"
    THEN LET r == html_statement(invoice, plays)
         IN  IF r.ok THEN [NewCall(op) EXCEPT !.pc = "returned", !.text = r.value]
             ELSE Unwind(NewCall(op), r.error)
    ELSE LET e == AloneEnrich(op, NewCall(op))
         IN  IF e.pc = "thrown" THEN e
             ELSE IF op = "statement"
             THEN [e EXCEPT !.pc = "returned",
                            !.text = render_plain_text(
                                [customer |-> invoice.customer,
                                 performances |-> e.enriched])]
             ELSE [e EXCEPT !.pc = "returned",
                            !.total_amount = accumulate(e.enriched, 1, 0, "amount"),
                            !.total_volume_credits =
                                accumulate(e.enriched, 1, 0, "volume_credits")]

ResultAsAlone == \A c \in DOMAIN call : Finished(c) => call[c] = Alone(call[c].op)

\* A step leaves the invoice and the catalog as they are, changes the
\* locals of one call only, and at most constructs a static calculator.
StepIsLocal ==
    /\ invoice' = invoice
    /\ plays' = plays
    /\ calculators \subseteq calculators'
    /\ \E c \in DOMAIN call : \A d \in DOMAIN call \ {c} : call'[d] = call[d]

\* C8: under every interleaving of the calls, each call ends with the
\* result it has when it runs alone, no step changes the invoice or the
\* catalog, and no step of a call changes the locals of another.
C8_CallsDoNotInterfere == [](ResultAsAlone) /\ [][StepIsLocal]_vars

\* Two statement calls over two priced performances: the first has
\* returned while the second is halfway through its loop.
C8_Witness ==
    /\ DOMAIN call = 1..2
    /\ call[1].op = "statement" /\ call[2].op = "statement"
    /\ Len(Performances) = 2
    /\ call[1].pc = "returned"
    /\ call[2].pc = "enrich" /\ Len(call[2].enriched) = 1

\* C9: when statement and html_statement both return, the HTML has one row
\* per performance, in invoice order, showing the play, the seats and the
\* amount of the matching statement line, and its two totals are those the
\* statement reports.
C9_HtmlAgreesWithStatement ==
    \A s, h \in DOMAIN call :
        (/\ call[s].op = "statement" /\ call[s].pc = "returned"
         /\ call[h].op = "html_statement" /\ call[h].pc = "returned") =>
            LET n == Len(Performances)
                lines == call[s].enriched
                owed == usd(SumOf(lines, "amount"))
                credits == ToString(SumOf(lines, "volume_credits"))
            IN  /\ Len(call[h].text) = n + 6
                /\ Len(call[s].text) = n + 3
                /\ \A i \in 1..n :
                       /\ call[s].text[i + 1] =
                              "  " \o lines[i].play.name \o ": " \o usd(lines[i].amount)
                              \o " (" \o ToString(lines[i].base.audience) \o " seats)"
                       /\ call[h].text[i + 3] =
                              "  <tr><td>" \o lines[i].play.name \o "</td><td>"
                              \o ToString(lines[i].base.audience) \o "</td><td>"
                              \o usd(lines[i].amount) \o "</td></tr>"
                /\ call[s].text[n + 2] = "Amount owed is " \o owed
                /\ call[h].text[n + 5] = "<p>Amount owed is <em>" \o owed \o "</em></p>"
                /\ call[s].text[n + 3] = "You earned " \o credits \o " credits"
                /\ call[h].text[n + 6] = "<p>You earned <em>" \o credits \o "</em> credits</p>"

\* The BigCo fixture, returned as text and as HTML.
C9_Witness ==
    /\ invoice = BigCoInvoice
    /\ \E s, h \in DOMAIN call :
           /\ call[s].op = "statement" /\ call[s].pc = "returned"
           /\ call[h].op = "html_statement" /\ call[h].pc = "returned"
           /\ call[s].text[3] = "  As You Like It: $580.00 (35 seats)"
           /\ call[h].text[5] = "  <tr><td>As You Like It</td><td>35</td><td>$580.00</td></tr>"
           /\ call[h].text[8] = "<p>Amount owed is <em>$1,730.00</em></p>"

\* C10: once statement and make_statement_data have both ended, either both
\* have returned, with the same lines (amount and volume credits) in the
\* same order and with the statement reporting the StatementData's totals,
\* or both have thrown the same exception at the same performance.
C10_PipelinesAgree ==
    \A s, m \in DOMAIN call :
        (/\ call[s].op = "statement" /\ Finished(s)
         /\ call[m].op = "make_statement_data" /\ Finished(m)) =>
            /\ call[s].pc = call[m].pc
            /\ call[s].error = call[m].error
            /\ call[s].priced = call[m].priced
            /\ call[s].enriched = call[m].enriched
            /\ call[s].pc = "returned" =>
                   LET n == Len(Performances)
                   IN  /\ call[s].text[n + 2] =
                              "Amount owed is " \o usd(call[m].total_amount)
                       /\ call[s].text[n + 3] =
                              "You earned " \o ToString(call[m].total_volume_credits)
                                  \o " credits"

\* Both pipelines have returned a Comedy of 31 seats followed by a Tragedy.
C10_Witness ==
    /\ Len(Performances) = 2
    /\ Performances[1] = [play_id |-> "as-like", audience |-> 31]
    /\ Performances[2].play_id = "hamlet"
    /\ \E s, m \in DOMAIN call :
           /\ call[s].op = "statement" /\ call[s].pc = "returned"
           /\ call[m].op = "make_statement_data" /\ call[m].pc = "returned"
           /\ call[m].enriched[1].volume_credits = 7

=============================================================================
